---- MODULE Spec2Model ----
(***************************************************************************)
(* Mean-variance portfolio formulations of gurobi_optimods/portfolio.py.   *)
(*                                                                         *)
(* Weights live on an integer grid: the weight 1.0 is One units, so every  *)
(* linear constraint of the code is stated in units and every quadratic    *)
(* term in units squared.  The solver engine is external: optimize() is a  *)
(* choice among the assignments that satisfy the constraints the code      *)
(* added and are optimal for the objective it set.                         *)
(***************************************************************************)
EXTENDS Integers, FiniteSets, Sequences, TLC

\* every record field of the model, in the order in which each record lists
\* its fields
Fields ==
    [at : {}, b_buy : {}, b_long : {}, b_sell : {},
     b_short : {}, costs_buy : {}, costs_sell : {}, covariance : {},
     exc : {}, expected_return : {}, fees_buy : {}, fees_sell : {},
     gamma : {}, hasIndex : {}, index : {}, initial_holdings : {},
     kind : {}, lb : {}, max_positions : {}, max_risk : {},
     max_total_short : {}, max_trades : {}, method : {}, min_long : {},
     min_short : {}, mu : {}, name : {}, p : {},
     raised : {}, resultType : {}, sense : {}, sigma : {},
     sol : {}, status : {}, values : {}, x : {},
     x_buy : {}, x_long : {}, x_sell : {}, x_short : {}]

\* ------------------------------------------------------------ bounds
NAssets == 2
One == 2
MaxOptions == 2

Assets == 1..NAssets
ShortValues == {0, 1}
\* the enumeration cap of a variable without an upper bound: above every
\* big-M the code can build (One + max of ShortValues)
Cap == One + 2
Bin == {0, 1}

None == <<>>
Some(v) == <<v>>
Val(o) == o[1]
Opt(S) == {None} \cup {Some(v) : v \in S}

\* ------------------------------------------------------------ numerics
RECURSIVE SumTo(_, _)
SumTo(f, k) == IF k = 0 THEN 0 ELSE f[k] + SumTo(f, k - 1)
Sum(f) == SumTo(f, NAssets)

\* mu @ x
Dot(mu, x) == Sum([i \in Assets |-> mu[i] * x[i]])
\* x @ covariance @ x
Quad(cov, x) == Sum([i \in Assets |-> x[i] * Sum([j \in Assets |-> cov[i][j] * x[j]])])

\* ------------------------------------------------------------ inputs
SigmaKinds == {"ndarray", "DataFrame", "other"}
MuKinds == {"ndarray", "Series", "other"}
\* the data sets: equal returns with uncorrelated unit variances, and distinct
\* returns with correlated assets
Datasets ==
    {[mu |-> [i \in Assets |-> 1],
      sigma |-> [i \in Assets |-> [j \in Assets |-> IF i = j THEN 1 ELSE 0]]],
     [mu |-> [i \in Assets |-> i],
      sigma |-> [i \in Assets |-> [j \in Assets |-> IF i = j THEN 2 ELSE 1]]]}

\* addMVar without lb: the solver's default lower bound
DefaultLb == 0
\* lb=-float("inf")
FreeLb == 0 - Cap

VARIABLES inp, self, pc, call, envs, models, m, status, X, ret

vars == <<inp, self, pc, call, envs, models, m, status, X, ret>>

\* ------------------------------------------------------------ __init__
\* the two isinstance chains, in order: the second overwrites resultType
SigmaStep(Sigma) ==
    IF Sigma.kind = "DataFrame"
    THEN [covariance |-> Sigma.values, hasIndex |-> TRUE, mu |-> <<>>,
          raised |-> FALSE, resultType |-> "pandas"]
    ELSE IF Sigma.kind = "ndarray"
    THEN [covariance |-> Sigma.values, hasIndex |-> FALSE, mu |-> <<>>,
          raised |-> FALSE, resultType |-> "numpy"]
    ELSE [covariance |-> Sigma.values, hasIndex |-> FALSE, mu |-> <<>>,
          raised |-> TRUE, resultType |-> "unset"]

MuStep(s, mu) ==
    IF mu.kind = "Series"
    THEN [s EXCEPT !.mu = mu.values, !.resultType = "pandas"]
    ELSE IF mu.kind = "ndarray"
    THEN [s EXCEPT !.mu = mu.values, !.resultType = "numpy"]
    ELSE [s EXCEPT !.raised = TRUE]

\* self.mu is unset until the second chain assigns it
Construct(Sigma, mu) ==
    LET s == SigmaStep(Sigma)
    IN  IF s.raised THEN s ELSE MuStep(s, mu)

\* ------------------------------------------------------------ _convert_result
NoReturn == [kind |-> "pending"]
ReturnNone == [kind |-> "None"]
Raise(e, where) == [at |-> where, exc |-> e, kind |-> "raise"]

ConvertResult(s, x) ==
    IF s.resultType = "numpy"
    THEN [kind |-> "ndarray", x |-> x]
    ELSE IF s.resultType = "pandas"
    THEN IF s.hasIndex
         THEN [index |-> "Sigma.index", kind |-> "Series", x |-> x]
         ELSE Raise("AttributeError", "_convert_result")
    ELSE Raise("AssertionError", "_convert_result")

\* ------------------------------------------------------------ minimize_risk
\* expected_return is given in units (the bound on mu @ x times One)
ReturnTargets == {0, One + 1, NAssets * One + 1}

\* as BuildMinimizeRisk, with x declared free
BuildMinimizeRiskFree(er) ==
    [expected_return |-> er, lb |-> FreeLb, name |-> "min_risk",
     sense |-> "min"]

BuildMinimizeRisk(er) ==
    [expected_return |-> er, lb |-> DefaultLb, name |-> "min_risk",
     sense |-> "min"]

\* ------------------------------------------------------------ maximize_return
\* max_risk is given in units squared (the bound on x @ covariance @ x times One^2)
RiskBounds == {0, One, 2 * One * One}

\* as BuildMaximizeReturn, without GRB.MAXIMIZE (the default sense minimizes)
BuildMaximizeReturnMin(mr) ==
    [lb |-> DefaultLb, max_risk |-> mr, name |-> "max_return",
     sense |-> "min"]

BuildMaximizeReturn(mr) ==
    [lb |-> DefaultLb, max_risk |-> mr, name |-> "max_return",
     sense |-> "max"]

\* x = addMVar(shape=mu.shape): one entry per asset, lb .. +inf
XVectors(lb) == [Assets -> lb..Cap]

FullyInvestedX(x) == Sum(x) = One
ExpectedReturn(s, mm, x) == Dot(s.mu, x) >= mm.expected_return
MaxRisk(s, mm, x) == Quad(s.covariance, x) <= mm.max_risk

FeasibleRisk(s, mm) ==
    {x \in XVectors(mm.lb) : FullyInvestedX(x) /\ ExpectedReturn(s, mm, x)}

FeasibleReturn(s, mm) ==
    {x \in XVectors(mm.lb) : FullyInvestedX(x) /\ MaxRisk(s, mm, x)}

\* ------------------------------------------------------------ efficient_portfolio
\* initial holdings: asset 1 and asset 2 hold a and b units, the others none;
\* the documented precondition is sum <= 1
HoldingLevels == {0 - 1, 0, One}
HoldingsValues ==
    {h \in [Assets -> HoldingLevels] :
        /\ \A i \in Assets : i > 2 => h[i] = 0
        /\ Sum(h) <= One}

ParamSpace ==
    [costs_buy : Opt({1}),
     costs_sell : Opt({1}),
     fees_buy : Opt({1}),
     fees_sell : Opt({1}),
     gamma : {0, 1},
     initial_holdings : Opt(HoldingsValues),
     max_positions : Opt({1}),
     max_total_short : ShortValues,
     max_trades : Opt({0, 1}),
     min_long : Opt({One}),
     min_short : Opt({One})]

Flag(b) == IF b THEN 1 ELSE 0

\* how many arguments differ from their defaults (for gamma, from 0)
Supplied(p) ==
    Flag(p.max_trades # None) + Flag(p.max_positions # None)
    + Flag(p.fees_buy # None) + Flag(p.fees_sell # None)
    + Flag(p.costs_buy # None) + Flag(p.costs_sell # None)
    + Flag(p.min_long # None) + Flag(p.min_short # None)
    + Flag(p.max_total_short # 0) + Flag(p.initial_holdings # None)
    + Flag(p.gamma # 0)

Params == {p \in ParamSpace : Supplied(p) <= MaxOptions}

\* if initial_holdings is None: initial_holdings = np.zeros(self.mu.shape)
Holdings(p) ==
    IF p.initial_holdings = None THEN [i \in Assets |-> 0]
    ELSE Val(p.initial_holdings)

BuildEfficientPortfolio(p) ==
    [lb |-> FreeLb, name |-> "efficient_portfolio",
     p |-> [p EXCEPT !.initial_holdings = Some(Holdings(p))], sense |-> "max"]

\* one row r of an assignment: the values of the nine variables of one asset
SignSplit(r) == r.x = r.x_long - r.x_short
TradeSplit(r, h) == r.x - h = r.x_buy - r.x_sell
VubLong(r, S) == r.x_long <= (One + S) * r.b_long
VubShort(r, S) == r.x_short <= S * r.b_short
VubBuy(r, S) == r.x_buy <= (One + S) * r.b_buy
VubSell(r, S) == r.x_sell <= (One + S) * r.b_sell
\* as LongOrShort, with the exclusivity of the two indicators dropped
LongOrShortBoth(r) == r.b_long + r.b_short <= 2
LongOrShort(r) == r.b_long + r.b_short <= 1
BuyOrSell(r) == r.b_buy + r.b_sell <= 1
\* as MinBuy, tied to the sell indicator
MinBuyOnSell(r, p) == p.min_long # None => r.x_buy >= Val(p.min_long) * r.b_sell
MinBuy(r, p) == p.min_long # None => r.x_buy >= Val(p.min_long) * r.b_buy
MinSell(r, p) == p.min_short # None => r.x_sell >= Val(p.min_short) * r.b_sell

\* a column of an assignment a (a sequence of rows): a[.][f], and its sum()
Col(a, f) == [i \in Assets |-> a[i][f]]
RECURSIVE ColSumTo(_, _, _)
ColSumTo(a, f, k) == IF k = 0 THEN 0 ELSE a[k][f] + ColSumTo(a, f, k - 1)
ColSum(a, f) == ColSumTo(a, f, NAssets)

TotalShort(a, S) == ColSum(a, "x_short") <= S
\* as MaxTrades, with "if max_trades:" for "if max_trades is not None:"
MaxTradesTruthy(a, p) ==
    (p.max_trades # None /\ Val(p.max_trades) # 0) =>
        ColSum(a, "b_buy") + ColSum(a, "b_sell") <= Val(p.max_trades)
MaxTrades(a, p) ==
    p.max_trades # None =>
        ColSum(a, "b_buy") + ColSum(a, "b_sell") <= Val(p.max_trades)
MaxPositions(a, p) ==
    p.max_positions # None =>
        ColSum(a, "b_long") + ColSum(a, "b_short") <= Val(p.max_positions)

Investment(a, p) ==
    ColSum(a, "x")
    + (IF p.fees_buy # None THEN ColSum(a, "b_buy") * Val(p.fees_buy) ELSE 0)
    + (IF p.fees_sell # None THEN ColSum(a, "b_sell") * Val(p.fees_sell) ELSE 0)
    + (IF p.costs_buy # None THEN ColSum(a, "x_buy") * Val(p.costs_buy) ELSE 0)
    + (IF p.costs_sell # None THEN ColSum(a, "x_sell") * Val(p.costs_sell) ELSE 0)
FullyInvested(a, p) == Investment(a, p) = One

\* as Amounts, with a lower bound below zero (lb=-1)
AmountsBelowZero == (DefaultLb - 1)..Cap
\* x_long, x_short, x_buy, x_sell = addMVar(...): default lower bound, no upper
Amounts == DefaultLb..Cap

LongShortRows(p) ==
    {q \in [b_long : Bin, b_short : Bin, x_long : Amounts, x_short : Amounts] :
        /\ VubLong(q, p.max_total_short)
        /\ VubShort(q, p.max_total_short)
        /\ LongOrShort(q)}

TradeRows(p) ==
    {t \in [b_buy : Bin, b_sell : Bin, x_buy : Amounts, x_sell : Amounts] :
        /\ VubBuy(t, p.max_total_short)
        /\ VubSell(t, p.max_total_short)
        /\ BuyOrSell(t)
        /\ MinBuy(t, p)
        /\ MinSell(t, p)}

\* the rows of one asset with initial holding h that satisfy every per-asset
\* constraint; x is free and tied to the others by the two split equations
AssetRows(mm, LS, TR, h) ==
    LET Row(q, t, xv) ==
            [b_buy |-> t.b_buy, b_long |-> q.b_long, b_sell |-> t.b_sell,
             b_short |-> q.b_short, x |-> xv,
             x_buy |-> t.x_buy, x_long |-> q.x_long, x_sell |-> t.x_sell,
             x_short |-> q.x_short]
        Trades(xv) == {u \in TR : xv - h = u.x_buy - u.x_sell}
        For(q) == {Row(q, t, q.x_long - q.x_short) : t \in Trades(q.x_long - q.x_short)}
        cand == UNION {For(q) : q \in LS}
    IN  {r \in cand : r.x >= mm.lb /\ SignSplit(r) /\ TradeSplit(r, h)}

RECURSIVE Rows(_, _, _, _)
Rows(mm, LS, TR, k) ==
    IF k = 0 THEN {<<>>}
    ELSE {Append(s, r) : s \in Rows(mm, LS, TR, k - 1),
                         r \in AssetRows(mm, LS, TR, Holdings(mm.p)[k])}

\* every assignment that satisfies the constraints efficient_portfolio added
FeasibleEfficient(mm) ==
    LET p == mm.p
    IN  {a \in Rows(mm, LongShortRows(p), TradeRows(p), NAssets) :
            /\ FullyInvested(a, p)
            /\ TotalShort(a, p.max_total_short)
            /\ MaxTrades(a, p)
            /\ MaxPositions(a, p)}

\* ------------------------------------------------------------ the solver engine
\* the x part of an assignment, which is all the code reads back (x.X)
FeasibleX(s, mm) ==
    IF mm.name = "min_risk" THEN FeasibleRisk(s, mm)
    ELSE IF mm.name = "max_return" THEN FeasibleReturn(s, mm)
    ELSE {Col(a, "x") : a \in FeasibleEfficient(mm)}

\* setObjective(...): the expression, in units squared where it is quadratic.
\* efficient_portfolio's mu @ x - 0.5 * gamma * x @ covariance @ x is scaled by
\* 2 * One^2 to stay integral.
ObjectiveExpr(s, mm, x) ==
    IF mm.name = "min_risk" THEN Quad(s.covariance, x)
    ELSE IF mm.name = "max_return" THEN Dot(s.mu, x)
    ELSE 2 * One * Dot(s.mu, x) - mm.p.gamma * Quad(s.covariance, x)

\* the objective as a quantity to maximize: GRB.MAXIMIZE, or the default sense
Score(s, mm, x) ==
    IF mm.sense = "max" THEN ObjectiveExpr(s, mm, x) ELSE 0 - ObjectiveExpr(s, mm, x)

\* the optimal vectors among the feasible vectors F
Optimal(s, mm, F) ==
    LET V == {Score(s, mm, x) : x \in F}
        best == CHOOSE v \in V : \A w \in V : w <= v
    IN  {x \in F : Score(s, mm, x) = best}

OptimalX(s, mm) == Optimal(s, mm, FeasibleX(s, mm))

NoX == <<>>

\* m.optimize(): the terminal status and, when optimal, the solution vector.
\* A limit can end any search before optimality is proved.
Outcomes(s, mm) ==
    LET F == FeasibleX(s, mm)
    IN  (IF F = {}
         THEN {[sol |-> NoX, status |-> "INFEASIBLE"],
               [sol |-> NoX, status |-> "INF_OR_UNBD"]}
         ELSE {[sol |-> x, status |-> "OPTIMAL"] : x \in Optimal(s, mm, F)})
        \cup {[sol |-> NoX, status |-> "TIME_LIMIT"]}

\* ------------------------------------------------------------ the with statement
\* as ExitOnRaise, without the dispose
ExitOnRaiseLeak(n) == n
\* __exit__ of a context manager when the body raises, and when it returns:
\* the number of open resources of its kind afterwards
ExitOnRaise(n) == n - 1
ExitOnReturn(n) == n - 1

NoCall == [method |-> "none"]
NoModel == [name |-> "none"]

\* ------------------------------------------------------------ the state machine
Init ==
    /\ \E d \in Datasets, km \in MuKinds, ks \in SigmaKinds :
        inp = [mu |-> [kind |-> km, values |-> d.mu],
               sigma |-> [kind |-> ks, values |-> d.sigma]]
    /\ self = Construct(inp.sigma, inp.mu)
    /\ pc = IF self.raised THEN "TypeError" ELSE "idle"
    /\ call = NoCall
    /\ envs = 0
    /\ models = 0
    /\ m = NoModel
    /\ status = "none"
    /\ X = NoX
    /\ ret = NoReturn

Enter(c) ==
    /\ pc = "idle"
    /\ pc' = "with_env"
    /\ call' = c
    /\ UNCHANGED <<inp, self, envs, models, m, status, X, ret>>

MinimizeRisk(er) == Enter([expected_return |-> er, method |-> "minimize_risk"])

MaximizeReturn(mr) == Enter([max_risk |-> mr, method |-> "maximize_return"])

EfficientPortfolio(p) == Enter([method |-> "efficient_portfolio", p |-> p])

\* gp.Env() as env
EnvAcquire ==
    /\ pc = "with_env"
    /\ pc' = "with_model"
    /\ envs' = envs + 1
    /\ UNCHANGED <<inp, self, call, models, m, status, X, ret>>

EnvRaise ==
    /\ pc = "with_env"
    /\ pc' = "returned"
    /\ ret' = Raise("GurobiError", "Env")
    /\ UNCHANGED <<inp, self, call, envs, models, m, status, X>>

\* gp.Model(name, env=env) as m
ModelAcquire ==
    /\ pc = "with_model"
    /\ pc' = "build"
    /\ models' = models + 1
    /\ UNCHANGED <<inp, self, call, envs, m, status, X, ret>>

ModelRaise ==
    /\ pc = "with_model"
    /\ pc' = "returned"
    /\ envs' = ExitOnRaise(envs)
    /\ ret' = Raise("GurobiError", "Model")
    /\ UNCHANGED <<inp, self, call, models, m, status, X>>

\* addMVar, addConstr, setObjective
Build ==
    /\ pc = "build"
    /\ pc' = "optimize"
    /\ m' = IF call.method = "minimize_risk"
            THEN BuildMinimizeRisk(call.expected_return)
            ELSE IF call.method = "maximize_return"
            THEN BuildMaximizeReturn(call.max_risk)
            ELSE BuildEfficientPortfolio(call.p)
    /\ UNCHANGED <<inp, self, call, envs, models, status, X, ret>>

BuildRaise ==
    /\ pc = "build"
    /\ pc' = "returned"
    /\ envs' = ExitOnRaise(envs)
    /\ models' = ExitOnRaise(models)
    /\ ret' = Raise("GurobiError", "build")
    /\ UNCHANGED <<inp, self, call, m, status, X>>

Optimize ==
    /\ pc = "optimize"
    /\ \E o \in Outcomes(self, m) :
        /\ status' = o.status
        /\ X' = o.sol
    /\ pc' = "status"
    /\ UNCHANGED <<inp, self, call, envs, models, m, ret>>

OptimizeRaise ==
    /\ pc = "optimize"
    /\ pc' = "returned"
    /\ envs' = ExitOnRaise(envs)
    /\ models' = ExitOnRaise(models)
    /\ m' = NoModel
    /\ ret' = Raise("GurobiError", "optimize")
    /\ UNCHANGED <<inp, self, call, status, X>>

\* if m.Status == GRB.OPTIMAL: return self._convert_result(x.X); else fall
\* off the end of the function (None).  Either way the with block is left.
Result(s, st, x) ==
    IF st = "OPTIMAL" THEN ConvertResult(s, x) ELSE ReturnNone

Return ==
    /\ pc = "status"
    /\ pc' = "returned"
    /\ ret' = Result(self, status, X)
    /\ envs' = IF ret'.kind = "raise" THEN ExitOnRaise(envs) ELSE ExitOnReturn(envs)
    /\ models' = IF ret'.kind = "raise" THEN ExitOnRaise(models) ELSE ExitOnReturn(models)
    /\ m' = NoModel
    /\ UNCHANGED <<inp, self, call, status, X>>

\* the caller has inspected the outcome and may call again
Continue ==
    /\ pc = "returned"
    /\ pc' = "idle"
    /\ call' = NoCall
    /\ status' = "none"
    /\ X' = NoX
    /\ ret' = NoReturn
    /\ UNCHANGED <<inp, self, envs, models, m>>

Next ==
    \/ \E er \in ReturnTargets : MinimizeRisk(er)
    \/ \E mr \in RiskBounds : MaximizeReturn(mr)
    \/ \E p \in Params : EfficientPortfolio(p)
    \/ EnvAcquire
    \/ EnvRaise
    \/ ModelAcquire
    \/ ModelRaise
    \/ Build
    \/ BuildRaise
    \/ Optimize
    \/ OptimizeRaise
    \/ Return
    \/ Continue

Spec == Init /\ [][Next]_vars

\* the same program on plain inputs (Sigma and mu both np.ndarray): what the
\* formulations are does not depend on the representation of the inputs
InitPlain == Init /\ inp.mu.kind = "ndarray" /\ inp.sigma.kind = "ndarray"

SpecPlain == InitPlain /\ [][Next]_vars

\* ------------------------------------------------------------ properties
IsEfficient(mm) == mm.name = "efficient_portfolio"
Decoded(r) == r.kind \in {"ndarray", "Series"}
Traded(a, h) == {i \in Assets : a[i].x # h[i]}

\* C1: for each solve method and every terminal solver status, the call
\* returns the decoded weight vector exactly when the status is optimal, and
\* returns None without raising for every other status.
StatusContract ==
    (pc = "returned" /\ status # "none") =>
        /\ (status = "OPTIMAL" <=> (Decoded(ret) /\ ret.x = X))
        /\ (status # "OPTIMAL" => ret = ReturnNone)

\* one of the two inputs was given in labeled form
Labeled == inp.sigma.kind = "DataFrame" \/ inp.mu.kind = "Series"

\* C2: the result-shape mode is labeled exactly when Sigma or mu was given in
\* labeled form, and every successful solve then returns a vector indexed by
\* Sigma's labels (a plain array when both inputs were plain).
ShapeModeContract ==
    ~self.raised =>
        /\ (self.resultType = "pandas" <=> Labeled)
        /\ (pc = "returned" /\ status = "OPTIMAL") =>
              IF Labeled
              THEN ret.kind = "Series" /\ ret.index = "Sigma.index"
              ELSE ret.kind = "ndarray"

\* C3: with max_total_short = 0 every assignment that satisfies the constraints
\* of efficient_portfolio has x_short[i] = 0 and x[i] >= 0 for every asset, so
\* every returned weight is non-negative.
LongOnlyDefault ==
    /\ (pc = "optimize" /\ IsEfficient(m) /\ m.p.max_total_short = 0) =>
          \A a \in FeasibleEfficient(m) : \A i \in Assets :
              a[i].x_short = 0 /\ a[i].x >= 0
    /\ (pc = "returned" /\ call.method = "efficient_portfolio"
            /\ call.p.max_total_short = 0 /\ Decoded(ret)) =>
          \A i \in Assets : ret.x[i] >= 0

LongOnlyReturned ==
    /\ pc = "returned"
    /\ call.method = "efficient_portfolio"
    /\ call.p.max_total_short = 0
    /\ call.p.initial_holdings # None
    /\ Decoded(ret)
    /\ \E i \in Assets : ret.x[i] > 0 /\ Holdings(call.p)[i] < 0

\* C4: with max_trades = k (k = 0 included) the number of assets whose final
\* weight differs from the initial holding is at most k in every assignment
\* that satisfies the constraints.
TradeLimit ==
    (pc = "optimize" /\ IsEfficient(m) /\ m.p.max_trades # None) =>
        \A a \in FeasibleEfficient(m) :
            Cardinality(Traded(a, Holdings(m.p))) <= Val(m.p.max_trades)

TradeLimitReached ==
    /\ pc = "optimize"
    /\ IsEfficient(m)
    /\ m.p.max_trades = Some(1)
    /\ \E i \in Assets : Holdings(m.p)[i] # 0
    /\ \E a \in FeasibleEfficient(m) : Cardinality(Traded(a, Holdings(m.p))) = 1

\* C5: with min_long = ml every asset with a strictly positive buy amount
\* (equivalently a positive net trade) buys at least ml, and no asset both buys
\* and sells, so the net purchase is x_buy.
MinimumBuy ==
    (pc = "optimize" /\ IsEfficient(m) /\ m.p.min_long # None) =>
        \A a \in FeasibleEfficient(m) : \A i \in Assets :
            LET h == Holdings(m.p)[i]
            IN  /\ (a[i].x_buy > 0 <=> a[i].x - h > 0)
                /\ a[i].x_buy > 0 =>
                      /\ a[i].x_buy >= Val(m.p.min_long)
                      /\ a[i].x_sell = 0
                      /\ a[i].x - h = a[i].x_buy

MinimumBuyReached ==
    /\ pc = "optimize"
    /\ IsEfficient(m)
    /\ m.p.min_long = Some(One)
    /\ m.p.initial_holdings # Some([i \in Assets |-> 0])
    /\ \E a \in FeasibleEfficient(m) : \E i \in Assets : a[i].x_buy = One

\* the return bound of minimize_risk, the risk bound of maximize_return
MeetsBound(s, mm, x) ==
    IF mm.name = "min_risk" THEN ExpectedReturn(s, mm, x) ELSE MaxRisk(s, mm, x)

\* C6 as stated: in minimize_risk and maximize_return x is free in sign, so
\* every vector with sum(x) = 1 that meets the return bound (the risk bound) is
\* feasible, vectors with negative entries included.
FreeSign ==
    (pc = "optimize" /\ ~IsEfficient(m)) =>
        {x \in XVectors(FreeLb) : FullyInvestedX(x) /\ MeetsBound(self, m, x)}
            \subseteq FeasibleX(self, m)

\* C6 as amended: in minimize_risk and maximize_return x carries the default
\* lower bound 0, so a vector is feasible exactly when it has no negative
\* entry, sums to 1 and meets the return bound (the risk bound).
NonNegativeSign ==
    (pc = "optimize" /\ ~IsEfficient(m)) =>
        FeasibleX(self, m) =
            {x \in XVectors(FreeLb) :
                /\ \A i \in Assets : x[i] >= 0
                /\ FullyInvestedX(x)
                /\ MeetsBound(self, m, x)}

NegativeEntryExcluded ==
    /\ pc = "optimize"
    /\ ~IsEfficient(m)
    /\ FeasibleX(self, m) # {}
    /\ {x \in XVectors(FreeLb) :
            /\ \E i \in Assets : x[i] < 0
            /\ FullyInvestedX(x)
            /\ MeetsBound(self, m, x)} \ FeasibleX(self, m) # {}

\* gamma = 0, max_total_short = 0 and every other parameter at its default
PureReturn(p) == p.gamma = 0 /\ Supplied(p) = 0
\* a risk bound no fully invested long-only portfolio exceeds
NonBinding(s, r) ==
    \A x \in XVectors(DefaultLb) : FullyInvestedX(x) => Quad(s.covariance, x) <= r
MaxReturnOptima(s) ==
    UNION {OptimalX(s, BuildMaximizeReturn(r)) : r \in {b \in RiskBounds : NonBinding(s, b)}}

\* C7 as stated: efficient_portfolio with gamma = 0, max_total_short = 0 and
\* defaults otherwise produces the same vector x as maximize_return with a
\* non-binding risk bound.
SameVector ==
    (pc = "status" /\ IsEfficient(m) /\ PureReturn(call.p) /\ status = "OPTIMAL") =>
        \A y \in MaxReturnOptima(self) : y = X

\* C7 as amended: the two formulations have the same set of optimal x, and both
\* return the same vector whenever that set has one element (one asset has the
\* strictly largest expected return); on ties the vectors may differ.
SameOptima ==
    /\ (pc = "optimize" /\ IsEfficient(m) /\ PureReturn(call.p)) =>
          /\ \E r \in RiskBounds : NonBinding(self, r)
          /\ \A r \in RiskBounds : NonBinding(self, r) =>
                OptimalX(self, m) = OptimalX(self, BuildMaximizeReturn(r))
    /\ (pc = "status" /\ IsEfficient(m) /\ PureReturn(call.p) /\ status = "OPTIMAL"
            /\ Cardinality(MaxReturnOptima(self)) = 1) =>
          MaxReturnOptima(self) = {X}

SameOptimumReturned ==
    /\ pc = "status"
    /\ IsEfficient(m)
    /\ PureReturn(call.p)
    /\ status = "OPTIMAL"
    /\ MaxReturnOptima(self) = {X}
    /\ \E i \in Assets : X[i] = One

\* C8: the solver session (environment and model) is acquired at the start of
\* a solve call and released before the call returns on every path, a solver
\* failure included; no session stays open between calls and at most one is
\* open at any time.
SessionScoped ==
    /\ envs \in {0, 1}
    /\ models \in {0, 1}
    /\ models <= envs
    /\ pc \in {"idle", "returned", "TypeError", "with_env"} => envs = 0 /\ models = 0
    /\ pc = "with_model" => envs = 1 /\ models = 0
    /\ pc \in {"build", "optimize", "status"} => envs = 1 /\ models = 1

ReleasedAfterFailure ==
    /\ pc = "returned"
    /\ ret = Raise("GurobiError", "optimize")
    /\ envs = 0
    /\ models = 0

\* the trade that takes one asset from holding h to position x
NeededBuy(x, h) == IF x > h THEN x - h ELSE 0
NeededSell(x, h) == IF h > x THEN h - x ELSE 0

RECURSIVE Positions(_, _)
Positions(LS, k) ==
    IF k = 0 THEN {<<>>}
    ELSE {Append(s, q) : s \in Positions(LS, k - 1), q \in LS}

\* the budget of a portfolio reached from h by the needed trades
Budget(a, p) ==
    LET h == Holdings(p)
        x == [i \in Assets |-> a[i].x_long - a[i].x_short]
        buy == [i \in Assets |-> NeededBuy(x[i], h[i])]
        sell == [i \in Assets |-> NeededSell(x[i], h[i])]
    IN  Sum(x)
        + (IF p.fees_buy # None
           THEN Val(p.fees_buy) * Sum([i \in Assets |-> Flag(buy[i] > 0)]) ELSE 0)
        + (IF p.fees_sell # None
           THEN Val(p.fees_sell) * Sum([i \in Assets |-> Flag(sell[i] > 0)]) ELSE 0)
        + (IF p.costs_buy # None THEN Val(p.costs_buy) * Sum(buy) ELSE 0)
        + (IF p.costs_sell # None THEN Val(p.costs_sell) * Sum(sell) ELSE 0)

\* C9: 1 + S is a valid big-M for the trade indicators: for every initial
\* holdings vector with sum <= 1 and every portfolio that satisfies the budget
\* constraint, the leverage cap and the position bounds, the trade needed to
\* reach it satisfies x_buy[i] <= 1 + S and x_sell[i] <= 1 + S.
TradeBigMValid ==
    (pc = "optimize" /\ IsEfficient(m)) =>
        \A a \in Positions(LongShortRows(m.p), NAssets) :
            (TotalShort(a, m.p.max_total_short) /\ Budget(a, m.p) = One) =>
                \A i \in Assets :
                    LET x == a[i].x_long - a[i].x_short
                        h == Holdings(m.p)[i]
                    IN  /\ NeededBuy(x, h) <= One + m.p.max_total_short
                        /\ NeededSell(x, h) <= One + m.p.max_total_short

\* C10 as stated: with max_total_short = 0 the big-M constraints force
\* x_short[i] = 0 and b_short[i] = 0 for every asset.
ShortIndicatorsOff ==
    (pc = "optimize" /\ IsEfficient(m) /\ m.p.max_total_short = 0) =>
        \A a \in FeasibleEfficient(m) : \A i \in Assets :
            a[i].x_short = 0 /\ a[i].b_short = 0

\* C10 as amended: with max_total_short = 0 the big-M constraints force
\* x_short[i] = 0 for every asset; b_short[i] is not forced to 0, but an asset
\* with b_short[i] = 1 has b_long[i] = 0 and holds no position.
ShortAmountsOff ==
    (pc = "optimize" /\ IsEfficient(m) /\ m.p.max_total_short = 0) =>
        \A a \in FeasibleEfficient(m) : \A i \in Assets :
            /\ a[i].x_short = 0
            /\ a[i].b_short = 1 =>
                  a[i].b_long = 0 /\ a[i].x_long = 0 /\ a[i].x = 0

ShortIndicatorOn ==
    /\ pc = "optimize"
    /\ IsEfficient(m)
    /\ m.p.max_total_short = 0
    /\ \E a \in FeasibleEfficient(m) : \E i \in Assets :
        a[i].b_short = 1 /\ a[i].x_short = 0

====
